---- MODULE Spec2Model ----
(***************************************************************************)
(* VergeGrid: the backup routine backup_install                            *)
(* (Installer/Saved/vergegrid_cleanup.py, with the configuration helpers   *)
(* of Installer/vergegrid_common.py) and the Robust launch-and-verify      *)
(* routine launch_and_verify (Installer/setup/verify-db-robust.py).        *)
(*                                                                         *)
(* Several specifications share the module, each running one routine from  *)
(* its start while the variables of the others stay idle:                  *)
(*   SpecBackup    one top-level call of backup_install                    *)
(*   SpecVerify    one call of launch_and_verify                           *)
(*   SpecSchema    one call of verify_robust_db on any data-store answer   *)
(*   SpecProgress  the writer and the reporter thread of backup_install,   *)
(*                 statement by statement (SpecProgressFair adds the       *)
(*                 scheduling assumptions)                                 *)
(*   SpecAction    one call of perform_action                              *)
(*   SpecWaits     backup_install or launch_and_verify                     *)
(*                                                                         *)
(* Modelling conventions                                                   *)
(*  - the source tree holds at most one file under each directory, so a    *)
(*    file is named by its directory; "vergegrid.conf" is the config file; *)
(*  - an archive path is named by the second-resolution timestamp in its   *)
(*    file name; the clock counts half seconds;                            *)
(*  - zf.write either adds the entry or raises without adding it;          *)
(*  - log() calls do not fail.                                             *)
(***************************************************************************)
EXTENDS Integers, Sequences, FiniteSets, TLC

(***************************************************************************)
(* Bounds of the model                                                     *)
(***************************************************************************)
MaxTreeFiles == 2
MaxRetriesCfg == 3
MaxDelay == 1
MaxVerifyDuration == 1
MaxProgressFiles == 3

(***************************************************************************)
(* Program constants                                                       *)
(***************************************************************************)
DefaultRetries == 3
WaitForStart == 10
TotalWait == 30
TotalWait2 == 30

NoPath == -1

ConfFile == "vergegrid.conf"
DeclaredDirs == {"MySQL", "Apache", "OpenSim", "Logs", "Downloads"}
OutsideDirs == {"PHP", "Other"}
SourceDirs == DeclaredDirs \cup OutsideDirs

Range(s) == {s[i] : i \in 1..Len(s)}

VARIABLES
  \* ---- backup_install ----
  bpc,            \* position in backup_install
  conf,           \* vergegrid.conf on disk
  conf0,          \* vergegrid.conf as it was when backup_install was called
  tree,           \* source files that exist under the install root
  clock,          \* wall clock, in half seconds
  retry_count,    \* parameter retry_count
  failed_files,   \* parameter failed_files (the ledger)
  prev_failed,    \* parameter prev_failed
  backup_file,    \* local backup_file
  MAX_RETRIES,    \* local MAX_RETRIES
  all_files,      \* local all_files
  processed,      \* local processed
  entries,        \* entries of the archive being written
  addFailed,      \* number of zf.write calls that raised in this attempt
  archives,       \* archive files on disk under VergeGrid_Backups
  tagged,         \* archives renamed to *_INVALID.zip
  bad_file,       \* result of zf.testzip() of the last integrity pass
  cleanPass,      \* the current archive passed its integrity pass
  digestDone,     \* a SHA-256 digest of an archive was computed in this run
  report,         \* BackupFile/SHA256 records appended to REPORT_PATH
  result,         \* return value: "pending", "None" or "path" (= backup_file)
  outcome,        \* which exit was taken
  attemptPaths,   \* archive path of every attempt of the run, in order
  held,           \* archives on which a read handle of this run is still open
  choice          \* the operator's answer at the disposition prompt

bvars == <<bpc, conf, conf0, tree, clock, retry_count, failed_files,
           prev_failed, backup_file, MAX_RETRIES, all_files, processed,
           entries, addFailed, archives, tagged, bad_file, cleanPass,
           digestDone, report, result, outcome, attemptPaths, held,
                 choice>>

VARIABLES
  \* ---- launch_and_verify ----
  vpc,            \* position in launch_and_verify
  exe_exists,     \* Robust.exe is present
  ini_exists,     \* Robust.ini is present
  launched,       \* subprocess.Popen returned a process
  alive,          \* the Robust.exe process is running
  proc,           \* psutil handle: TRUE when attached, FALSE when proc is None
  i,              \* loop index of the responsiveness check
  remaining,      \* loop variable of the current wait window or countdown
  wpos,           \* inside a wait window: before the liveness check or asleep
  windows,        \* number of 30-tick wait windows entered
  checks,         \* results of the verify_robust_db calls, in order
  verify_duration,\* measured duration of the pass-1 check, in seconds
  signals,        \* stop requests delivered to the process, in order
  warned,         \* "[WARN] Graceful shutdown failed" was logged
  cleanLogged,    \* "[OK] Robust.exe stopped cleanly" was logged
  ret,            \* return value of launch_and_verify
  exitWin,        \* wait window during which the process exited (0: none)
  exitSlept,      \* ticks of that window already slept when it exited
  exitDetectable, \* a liveness check of that window was still to come
  category,       \* the way launch_and_verify ended ("none" while running)
  attempted,      \* stop calls made on the process, delivered or not, in order
  confirmedStopped \* a liveness check after the last stop call saw it exited

vvars == <<vpc, exe_exists, ini_exists, launched, alive, proc, i, remaining,
           wpos, windows, checks, verify_duration, signals, warned,
           cleanLogged, ret, exitWin, exitSlept, exitDetectable, category,
           attempted, confirmedStopped>>

VARIABLES
  \* ---- verify_robust_db, applied to one answer of the data store ----
  spc,            \* "input" before the call, "checked" after it
  dbConn,         \* connecting and SHOW TABLES succeed
  dbTables,       \* the tables SHOW TABLES lists
  dbCountOk,      \* the SELECT COUNT(*) queries succeed
  dbResult        \* the value verify_robust_db returned

svars == <<spc, dbConn, dbTables, dbCountOk, dbResult>>

VARIABLES
  \* ---- the writer and the progress reporter of backup_install ----
  wpc,            \* position of the writer (the thread running backup_install)
  rpc,            \* position of the reporter thread (live_status)
  lock,           \* holder of threading.Lock(): "free", "writer", "reporter"
  stop_flag,      \* the flag the reporter's loop tests
  total_files,    \* len(all_files)
  nprocessed,     \* the counter `processed` shared by the two threads
  spin_idx,       \* index of the spinner frame shown next
  fidx,           \* files of all_files the write loop has taken so far
  add_errors      \* zf.write calls that raised and were logged (line 277)

pvars == <<wpc, rpc, lock, stop_flag, total_files, nprocessed, spin_idx,
           fidx, add_errors>>

VARIABLES
  \* ---- perform_action ----
  apc,            \* position in perform_action
  action,         \* the requested action
  dirs,           \* install directories present under the root
  dirs0,          \* install directories present when perform_action began
  cfgExists,      \* vergegrid.conf is present under the root
  cfgExists0,     \* vergegrid.conf was present when perform_action began
  stopped,        \* the services were stopped
  unregistered,   \* the services were unregistered
  backup_path,    \* what backup_install returned: "unset", "path", "None"
  confirm,        \* what the operator typed at the prompt ("unset" before)
  status,         \* report["status"]
  reportSaved     \* the report file was written

avars == <<apc, action, dirs, dirs0, cfgExists, cfgExists0, stopped,
           unregistered, backup_path, confirm, status, reportSaved>>

\* what each routine leaves alone
notBackup == <<vvars, svars, pvars, avars>>
notVerify == <<bvars, svars, pvars, avars>>
notSchema == <<bvars, vvars, pvars, avars>>
notProgress == <<bvars, vvars, svars, avars>>
notAction == <<bvars, vvars, svars, pvars>>

vars == <<bvars, vvars, svars, pvars, avars>>

(***************************************************************************)
(* vergegrid.conf and its loader                                           *)
(***************************************************************************)
DefaultConf == [st |-> "full", k |-> DefaultRetries, php |-> "sub"]
MissingConf == [st |-> "missing", k |-> DefaultRetries, php |-> "sub"]
EmptyConf == [st |-> "empty", k |-> DefaultRetries, php |-> "sub"]

ConfStates ==
  {MissingConf, EmptyConf} \cup
  [st : {"partial", "full"}, k : 0..MaxRetriesCfg, php : {"sub", "sep"}]

\* ensure_vergegrid_config: writes the defaults when the file is missing
EnsureConfig(c, wr) ==
  IF c.st # "missing" THEN c
  ELSE IF wr THEN DefaultConf ELSE c

\* _backup_and_regen_conf: rename the bad file away, then ensure
BackupAndRegen(c, wr, rn) ==
  EnsureConfig(IF rn THEN MissingConf ELSE c, wr)

\* load_vergegrid_config: the dict it returns and the file it leaves
LoadConfig(c, wr, rn) ==
  LET dflt == [k |-> DefaultRetries, php |-> "sub"]
  IN CASE c.st = "missing" -> [cfg |-> dflt, conf |-> EnsureConfig(c, wr)]
       [] c.st = "empty"   -> [cfg |-> dflt, conf |-> BackupAndRegen(c, wr, rn)]
       [] c.st = "partial" -> [cfg |-> [k |-> c.k, php |-> c.php],
                               conf |-> BackupAndRegen(c, wr, rn)]
       [] OTHER            -> [cfg |-> [k |-> c.k, php |-> c.php], conf |-> c]

\* the backup_max_retries value a call of backup_install reads first
ConfiguredRetries(c) == LoadConfig(EnsureConfig(c, TRUE), TRUE, TRUE).cfg.k

(***************************************************************************)
(* File enumeration                                                        *)
(***************************************************************************)
PathsToBackup(cfg) ==
  <<"MySQL", "Apache", "OpenSim", "Logs", "Downloads", ConfFile>>
  \o (IF cfg.php = "sep" THEN <<"PHP">> ELSE <<>>)

PathExists(p, c, t) == IF p = ConfFile THEN c.st # "missing" ELSE p \in t

BuildFileList(cfg, c, t) ==
  LET Exists(p) == PathExists(p, c, t)
  IN SelectSeq(PathsToBackup(cfg), Exists)

\* time.strftime("%Y-%m-%d_%H%M%S"): the clock truncated to whole seconds
Timestamp(clk) == clk \div 2

(***************************************************************************)
(* Decision taken after zf.testzip() named a corrupt entry                 *)
(***************************************************************************)
\* variant: the ledger is not consulted before retrying
CorruptDecisionNoLedger(bad, ledger, rc, mx) ==
  IF rc + 1 < mx THEN "retry" ELSE "exhausted"

CorruptDecision(bad, ledger, rc, mx) ==
  IF bad \in ledger THEN "repeat"
  ELSE IF rc + 1 < mx THEN "retry"
  ELSE "exhausted"

(***************************************************************************)
(* backup_install                                                          *)
(***************************************************************************)
Trees == {t \in SUBSET SourceDirs : Cardinality(t) <= MaxTreeFiles}

BackupStart ==
  /\ bpc = "begin"
  /\ conf \in ConfStates
  /\ conf0 = conf
  /\ tree \in Trees
  /\ clock \in 0..1
  /\ retry_count = 0
  /\ failed_files = {}
  /\ prev_failed = NoPath
  /\ backup_file = NoPath
  /\ MAX_RETRIES = 0
  /\ all_files = <<>>
  /\ processed = 0
  /\ entries = <<>>
  /\ addFailed = 0
  /\ archives = {}
  /\ tagged = {}
  /\ bad_file = "none"
  /\ cleanPass = FALSE
  /\ digestDone = FALSE
  /\ report = <<>>
  /\ result = "pending"
  /\ outcome = "running"
  /\ attemptPaths = <<>>
  /\ held = {}
  /\ choice = "none"

Fail(kind) ==
  /\ bpc' = "done"
  /\ result' = "None"
  /\ outcome' = kind

\* variant: every call starts with an empty ledger
BeginAttemptFreshLedger ==
  /\ bpc = "begin"
  /\ UNCHANGED notBackup
  /\ \E wr \in BOOLEAN, rn \in BOOLEAN :
       LET L == LoadConfig(EnsureConfig(conf, wr), wr, rn)
       IN /\ MAX_RETRIES' = L.cfg.k
          /\ conf' = L.conf
  /\ backup_file' = Timestamp(clock)
  /\ attemptPaths' = Append(attemptPaths, Timestamp(clock))
  /\ clock' = clock + 1
  /\ all_files' = <<>>
  /\ processed' = 0
  /\ entries' = <<>>
  /\ addFailed' = 0
  /\ cleanPass' = FALSE
  /\ bad_file' = "none"
  /\ bpc' = "enum"
  /\ failed_files' = {}
  /\ UNCHANGED <<conf0, tree, retry_count, prev_failed,
                 archives, tagged, digestDone, report, result, outcome,
                 held, choice>>

\* lines 176-191: read the retry limit, name the archive, sleep 0.5 s
BeginAttempt ==
  /\ bpc = "begin"
  /\ UNCHANGED notBackup
  /\ \E wr \in BOOLEAN, rn \in BOOLEAN :
       LET L == LoadConfig(EnsureConfig(conf, wr), wr, rn)
       IN /\ MAX_RETRIES' = L.cfg.k
          /\ conf' = L.conf
  /\ backup_file' = Timestamp(clock)
  /\ attemptPaths' = Append(attemptPaths, Timestamp(clock))
  /\ clock' = clock + 1
  /\ all_files' = <<>>
  /\ processed' = 0
  /\ entries' = <<>>
  /\ addFailed' = 0
  /\ cleanPass' = FALSE
  /\ bad_file' = "none"
  /\ bpc' = "enum"
  /\ UNCHANGED <<conf0, tree, retry_count, failed_files, prev_failed,
                 archives, tagged, digestDone, report, result, outcome,
                 held, choice>>

\* lines 196-234: load the config again, build the file list
Enumerate ==
  /\ bpc = "enum"
  /\ UNCHANGED notBackup
  /\ \E wr \in BOOLEAN, rn \in BOOLEAN :
       LET L == LoadConfig(conf, wr, rn)
           files == BuildFileList(L.cfg, L.conf, tree)
       IN /\ conf' = L.conf
          /\ all_files' = files
          /\ IF Len(files) = 0
             THEN Fail("NoFilesFound")
             ELSE /\ bpc' = "open"
                  /\ UNCHANGED <<result, outcome>>
  /\ UNCHANGED <<conf0, tree, clock, retry_count, failed_files, prev_failed,
                 backup_file, MAX_RETRIES, processed, entries, addFailed,
                 archives, tagged, bad_file, cleanPass, digestDone, report,
                 attemptPaths, held, choice>>

\* line 271: zipfile.ZipFile(backup_file, "w") creates or truncates the file
OpenArchive ==
  /\ bpc = "open"
  /\ UNCHANGED notBackup
  /\ \/ /\ archives' = archives \cup {backup_file}
        /\ bpc' = "write"
        /\ UNCHANGED <<result, outcome>>
     \/ /\ Fail("Error")
        /\ UNCHANGED archives
  /\ UNCHANGED <<conf, conf0, tree, clock, retry_count, failed_files,
                 prev_failed, backup_file, MAX_RETRIES, all_files, processed,
                 entries, addFailed, tagged, bad_file, cleanPass, digestDone,
                 report, attemptPaths, held,
                 choice>>

\* variant: a zf.write that raises is not caught inside the loop
WriteFileAbortOnError ==
  /\ bpc = "write"
  /\ UNCHANGED notBackup
  /\ processed < Len(all_files)
  /\ \/ /\ entries' = Append(entries, all_files[processed + 1])
        /\ processed' = processed + 1
        /\ UNCHANGED <<bpc, addFailed, result, outcome>>
     \/ /\ addFailed' = addFailed + 1
        /\ Fail("Error")
        /\ UNCHANGED <<entries, processed>>
  /\ UNCHANGED <<conf, conf0, tree, clock, retry_count, failed_files,
                 prev_failed, backup_file, MAX_RETRIES, all_files, archives,
                 tagged, bad_file, cleanPass, digestDone, report,
                 attemptPaths, held, choice>>

\* lines 272-279: one iteration of the write loop
WriteFile ==
  /\ bpc = "write"
  /\ UNCHANGED notBackup
  /\ processed < Len(all_files)
  /\ \E ok \in BOOLEAN :
       /\ entries' = IF ok THEN Append(entries, all_files[processed + 1])
                     ELSE entries
       /\ addFailed' = IF ok THEN addFailed ELSE addFailed + 1
  /\ processed' = processed + 1
  /\ UNCHANGED <<bpc, conf, conf0, tree, clock, retry_count, failed_files,
                 prev_failed, backup_file, MAX_RETRIES, all_files, archives,
                 tagged, bad_file, cleanPass, digestDone, report, result,
                 outcome, attemptPaths, held,
                 choice>>

\* lines 271 (exit of the with block) to 284: close the archive, stop the reporter
CloseArchive ==
  /\ bpc = "write"
  /\ UNCHANGED notBackup
  /\ processed = Len(all_files)
  /\ \E d \in 0..MaxDelay : clock' = clock + d
  /\ \/ /\ bpc' = "verify"
        /\ UNCHANGED <<result, outcome>>
     \/ Fail("Error")
  /\ UNCHANGED <<conf, conf0, tree, retry_count, failed_files, prev_failed,
                 backup_file, MAX_RETRIES, all_files, processed, entries,
                 addFailed, archives, tagged, bad_file, cleanPass, digestDone,
                 report, attemptPaths, held,
                 choice>>

\* lines 289-317: the integrity pass and the retry decision
VerifyClean ==
  /\ bpc = "verify"
  /\ UNCHANGED notBackup
  /\ bad_file' = "none"
  /\ cleanPass' = TRUE
  /\ bpc' = "hash"
  /\ UNCHANGED <<conf, conf0, tree, clock, retry_count, failed_files,
                 prev_failed, backup_file, MAX_RETRIES, all_files, processed,
                 entries, addFailed, archives, tagged, digestDone, report,
                 result, outcome, attemptPaths, held,
                 choice>>

\* variant: the retry test counts attempts from 1
VerifyCorruptOneBased ==
  /\ bpc = "verify"
  /\ UNCHANGED notBackup
  /\ \E bad \in Range(entries) :
       LET d == CorruptDecision(bad, failed_files, retry_count + 1, MAX_RETRIES)
       IN /\ bad_file' = bad
          /\ CASE d = "repeat" ->
                    /\ Fail("RepeatedCorruption")
                    /\ UNCHANGED <<failed_files, retry_count, prev_failed,
                                   held>>
               [] d = "retry" ->
                    /\ failed_files' = failed_files \cup {bad}
                    /\ retry_count' = retry_count + 1
                    /\ prev_failed' = backup_file
                    /\ held' = held \cup {backup_file}
                    /\ bpc' = "begin"
                    /\ UNCHANGED <<result, outcome>>
               [] OTHER ->
                    /\ failed_files' = failed_files \cup {bad}
                    /\ Fail("RetriesExhausted")
                    /\ UNCHANGED <<retry_count, prev_failed, held>>
  /\ UNCHANGED <<conf, conf0, tree, clock, backup_file, MAX_RETRIES,
                 all_files, processed, entries, addFailed, archives, tagged,
                 cleanPass, digestDone, report, attemptPaths, choice>>

\* lines 293-312: testzip() named a corrupt entry
VerifyCorrupt ==
  /\ bpc = "verify"
  /\ UNCHANGED notBackup
  /\ \E bad \in Range(entries) :
       LET d == CorruptDecision(bad, failed_files, retry_count, MAX_RETRIES)
       IN /\ bad_file' = bad
          /\ CASE d = "repeat" ->
                    /\ Fail("RepeatedCorruption")
                    /\ UNCHANGED <<failed_files, retry_count, prev_failed,
                                   held>>
               [] d = "retry" ->
                    /\ failed_files' = failed_files \cup {bad}
                    /\ retry_count' = retry_count + 1
                    /\ prev_failed' = backup_file
                    /\ held' = held \cup {backup_file}
                    /\ bpc' = "begin"
                    /\ UNCHANGED <<result, outcome>>
               [] OTHER ->
                    /\ failed_files' = failed_files \cup {bad}
                    /\ Fail("RetriesExhausted")
                    /\ UNCHANGED <<retry_count, prev_failed, held>>
  /\ UNCHANGED <<conf, conf0, tree, clock, backup_file, MAX_RETRIES,
                 all_files, processed, entries, addFailed, archives, tagged,
                 cleanPass, digestDone, report, attemptPaths, choice>>

\* variant: an archive that cannot be read is retried like a corrupt one
VerifyErrorRetries ==
  /\ bpc = "verify"
  /\ UNCHANGED notBackup
  /\ IF retry_count + 1 < MAX_RETRIES
     THEN /\ retry_count' = retry_count + 1
          /\ prev_failed' = backup_file
          /\ bpc' = "begin"
          /\ UNCHANGED <<result, outcome>>
     ELSE /\ Fail("VerifyError")
          /\ UNCHANGED <<retry_count, prev_failed>>
  /\ UNCHANGED <<conf, conf0, tree, clock, failed_files, backup_file,
                 MAX_RETRIES, all_files, processed, entries, addFailed,
                 archives, tagged, bad_file, cleanPass, digestDone, report,
                 attemptPaths, held, choice>>

\* lines 315-317: the archive cannot be opened or read at all
VerifyError ==
  /\ bpc = "verify"
  /\ UNCHANGED notBackup
  /\ Fail("VerifyError")
  /\ UNCHANGED <<conf, conf0, tree, clock, retry_count, failed_files,
                 prev_failed, backup_file, MAX_RETRIES, all_files, processed,
                 entries, addFailed, archives, tagged, bad_file, cleanPass,
                 digestDone, report, attemptPaths, held,
                 choice>>

\* lines 322-327: SHA-256 of the archive file
HashArchive ==
  /\ bpc = "hash"
  /\ UNCHANGED notBackup
  /\ \/ /\ digestDone' = TRUE
        /\ bpc' = "report"
        /\ UNCHANGED <<result, outcome>>
     \/ /\ Fail("Error")
        /\ UNCHANGED digestDone
  /\ UNCHANGED <<conf, conf0, tree, clock, retry_count, failed_files,
                 prev_failed, backup_file, MAX_RETRIES, all_files, processed,
                 entries, addFailed, archives, tagged, bad_file, cleanPass,
                 report, attemptPaths, held,
                 choice>>

\* lines 329-336: append the BackupFile/SHA256 record
WriteReport ==
  /\ bpc = "report"
  /\ UNCHANGED notBackup
  /\ \/ /\ report' = Append(report, backup_file)
        /\ bpc' = "dispose"
        /\ UNCHANGED <<result, outcome>>
     \/ /\ Fail("Error")
        /\ UNCHANGED report
  /\ UNCHANGED <<conf, conf0, tree, clock, retry_count, failed_files,
                 prev_failed, backup_file, MAX_RETRIES, all_files, processed,
                 entries, addFailed, archives, tagged, bad_file, cleanPass,
                 digestDone, attemptPaths, held,
                 choice>>

Return ==
  /\ bpc' = "done"
  /\ result' = "path"
  /\ outcome' = "Success"

\* lines 341-348: with an earlier failed archive on disk the menu is printed
\* and input() waits for the operator; otherwise line 371 returns the path
Dispose ==
  /\ bpc = "dispose"
  /\ UNCHANGED notBackup
  /\ IF prev_failed # NoPath /\ prev_failed \in archives
     THEN /\ bpc' = "prompt"
          /\ UNCHANGED <<result, outcome>>
     ELSE Return
  /\ UNCHANGED <<conf, conf0, tree, clock, retry_count, failed_files,
                 prev_failed, backup_file, MAX_RETRIES, all_files, processed,
                 entries, addFailed, archives, tagged, bad_file, cleanPass,
                 digestDone, report, attemptPaths, held,
                 choice>>

\* lines 348-371: input() returns (or raises) and the choice is carried out
OperatorAnswers ==
  /\ bpc = "prompt"
  /\ UNCHANGED notBackup
  /\ \/ \* input() raises (end of input): caught by the outer handler
        /\ Fail("Error")
        /\ UNCHANGED <<archives, tagged, choice>>
     \/ \* choice D: os.remove, a failure is logged
        /\ \E ok \in BOOLEAN :
             archives' = IF ok THEN archives \ {prev_failed} ELSE archives
        /\ UNCHANGED tagged
        /\ choice' = "D"
        /\ Return
     \/ \* choice K: os.rename to *_INVALID.zip, a failure is logged
        /\ \E ok \in BOOLEAN :
             /\ archives' = IF ok THEN archives \ {prev_failed} ELSE archives
             /\ tagged' = IF ok THEN tagged \cup {prev_failed} ELSE tagged
        /\ choice' = "K"
        /\ Return
     \/ \* any other choice
        /\ UNCHANGED <<archives, tagged>>
        /\ choice' = "N"
        /\ Return
  /\ UNCHANGED <<conf, conf0, tree, clock, retry_count, failed_files,
                 prev_failed, backup_file, MAX_RETRIES, all_files, processed,
                 entries, addFailed, bad_file, cleanPass, digestDone, report,
                 attemptPaths, held>>

\* the steps backup_install takes by itself
BackupStep ==
  \/ BeginAttempt
  \/ Enumerate
  \/ OpenArchive
  \/ WriteFile
  \/ CloseArchive
  \/ VerifyClean
  \/ VerifyCorrupt
  \/ VerifyError
  \/ HashArchive
  \/ WriteReport
  \/ Dispose

NextBackup ==
  \/ BackupStep
  \/ OperatorAnswers

(***************************************************************************)
(* verify_robust_db                                                        *)
(***************************************************************************)
CORE_TABLES ==
  {"assets", "auth", "avatars", "friends", "griduser", "inventoryfolders",
   "inventoryitems", "presence", "regions", "tokens", "useraccounts"}

OPTIONAL_TABLES == {"agentprefs", "migrations", "muteList"}

Complete == 0
ConnectionError == 1
Incomplete == 2

\* what the data store can answer to one check
TableSets ==
  {CORE_TABLES \cup OPTIONAL_TABLES, CORE_TABLES, CORE_TABLES \ {"regions"},
   OPTIONAL_TABLES, {}}

\* variant: a failed row-count query is reported as a connection error
verify_robust_db_CountFatal(connOk, tables, countOk) ==
  IF ~connOk THEN ConnectionError
  ELSE LET missing_core == {t \in CORE_TABLES : t \notin tables}
           result_code == IF missing_core # {} THEN Incomplete ELSE Complete
       IN IF countOk THEN result_code ELSE ConnectionError

\* lines 55-117: connOk is the outcome of connecting and of SHOW TABLES,
\* tables the listing, countOk the outcome of the row-count queries
verify_robust_db(connOk, tables, countOk) ==
  IF ~connOk THEN ConnectionError
  ELSE LET missing_core == {t \in CORE_TABLES : t \notin tables}
           missing_optional == {t \in OPTIONAL_TABLES : t \notin tables}
           result_code == IF missing_core # {} THEN Incomplete ELSE Complete
       IN result_code

(***************************************************************************)
(* launch_and_verify                                                       *)
(***************************************************************************)
Pending == -1

\* the ways launch_and_verify can end
FatalCategories ==
  {"exe_missing", "ini_missing", "launch_error", "exit_pass1", "exit_pass2",
   "schema_incomplete", "connection_error"}

\* lines 142, 147, 158, 195, 237, 247: the value returned for each way to fail
ExitCode(cat) ==
  CASE cat = "exe_missing" -> 1
    [] cat = "ini_missing" -> 2
    [] cat = "launch_error" -> 3
    [] cat = "exit_pass1" -> 4
    [] cat = "exit_pass2" -> 5
    [] cat = "schema_incomplete" -> 2
    [] cat = "connection_error" -> 2

\* lines 242-247: how a failed pass-2 result is classified
PassTwoFailure(r) ==
  IF r = ConnectionError THEN "connection_error" ELSE "schema_incomplete"

\* variant: the window sleeps without looking at the process
ExitedEarlyNever(p, a) == FALSE

\* lines 191 and 233: the liveness test of a wait window
ExitedEarly(p, a) == p /\ ~a

\* variant: the shutdown follows the pass-1 check whatever its result
AfterPass1AlwaysStop(r) == "countdown"

\* line 210: what follows the pass-1 check
AfterPass1(r) == IF r = 0 THEN "countdown" ELSE "wait2"

\* variant: the pass-2 test is inverted
AfterPass2Inverted(r) == IF r = 0 THEN "fail" ELSE "interrupt"

\* line 243: what follows the pass-2 check
AfterPass2(r) == IF r # 0 THEN "fail" ELSE "interrupt"

\* variant: a failed shutdown is reported as a failure of the run
ShutdownReturnErr(raised) == IF raised THEN 6 ELSE 0

\* line 271: the value returned once the shutdown sequence has been entered
ShutdownReturn(raised) == 0

VerifyIdle ==
  /\ vpc = "idle"
  /\ exe_exists = FALSE
  /\ ini_exists = FALSE
  /\ launched = FALSE
  /\ alive = FALSE
  /\ proc = FALSE
  /\ i = 0
  /\ remaining = 0
  /\ wpos = "check"
  /\ windows = 0
  /\ checks = <<>>
  /\ verify_duration = 0
  /\ signals = <<>>
  /\ warned = FALSE
  /\ cleanLogged = FALSE
  /\ ret = Pending
  /\ exitWin = 0
  /\ exitSlept = 0
  /\ exitDetectable = FALSE
  /\ category = "none"
  /\ attempted = <<>>
  /\ confirmedStopped = FALSE

VerifyStart ==
  /\ vpc = "start"
  /\ exe_exists \in BOOLEAN
  /\ ini_exists \in BOOLEAN
  /\ launched = FALSE
  /\ alive = FALSE
  /\ proc = FALSE
  /\ i = 0
  /\ remaining = 0
  /\ wpos = "check"
  /\ windows = 0
  /\ checks = <<>>
  /\ verify_duration = 0
  /\ signals = <<>>
  /\ warned = FALSE
  /\ cleanLogged = FALSE
  /\ ret = Pending
  /\ exitWin = 0
  /\ exitSlept = 0
  /\ exitDetectable = FALSE
  /\ category = "none"
  /\ attempted = <<>>
  /\ confirmedStopped = FALSE

Finish(code, cat) ==
  /\ vpc' = "done"
  /\ ret' = code
  /\ category' = cat

\* a fatal return: the code of its category
Fatal(cat) == Finish(ExitCode(cat), cat)

\* variant: the config file is looked for before the executable
LaunchIniFirst ==
  /\ vpc = "start"
  /\ UNCHANGED notVerify
  /\ IF ~ini_exists THEN Fatal("ini_missing") /\ UNCHANGED <<launched, alive>>
     ELSE IF ~exe_exists THEN Fatal("exe_missing") /\ UNCHANGED <<launched, alive>>
     ELSE \/ Fatal("launch_error") /\ UNCHANGED <<launched, alive>>
          \/ /\ launched' = TRUE
             /\ alive' = TRUE
             /\ vpc' = "attach"
             /\ UNCHANGED <<ret, category>>
  /\ UNCHANGED <<exe_exists, ini_exists, proc, i, remaining, wpos, windows,
                 checks, verify_duration, signals, warned, cleanLogged,
                 exitWin, exitSlept, exitDetectable, attempted,
                 confirmedStopped>>

\* lines 139-160: sanity checks and subprocess.Popen
Launch ==
  /\ vpc = "start"
  /\ UNCHANGED notVerify
  /\ IF ~exe_exists THEN Fatal("exe_missing") /\ UNCHANGED <<launched, alive>>
     ELSE IF ~ini_exists THEN Fatal("ini_missing") /\ UNCHANGED <<launched, alive>>
     ELSE \/ Fatal("launch_error") /\ UNCHANGED <<launched, alive>>
          \/ /\ launched' = TRUE
             /\ alive' = TRUE
             /\ vpc' = "attach"
             /\ UNCHANGED <<ret, category>>
  /\ UNCHANGED <<exe_exists, ini_exists, proc, i, remaining, wpos, windows,
                 checks, verify_duration, signals, warned, cleanLogged,
                 exitWin, exitSlept, exitDetectable, attempted,
                 confirmedStopped>>

\* lines 164-168: psutil.Process(pid); a failure leaves proc = None
Attach ==
  /\ vpc = "attach"
  /\ UNCHANGED notVerify
  /\ proc' \in BOOLEAN
  /\ i' = 0
  /\ vpc' = "respond"
  /\ UNCHANGED <<exe_exists, ini_exists, launched, alive, remaining, wpos,
                 windows, checks, verify_duration, signals, warned,
                 cleanLogged, ret, exitWin, exitSlept, exitDetectable,
                 category, attempted, confirmedStopped>>

EnterWindow(w, total) ==
  /\ vpc' = w
  /\ remaining' = total
  /\ wpos' = "check"
  /\ windows' = windows + 1

\* lines 170-186: one iteration of the responsiveness check
RespondTick ==
  /\ vpc = "respond"
  /\ UNCHANGED notVerify
  /\ \/ /\ \E busy \in BOOLEAN :
             IF proc /\ alive /\ busy
             THEN EnterWindow("wait1", TotalWait) /\ UNCHANGED i
             ELSE IF i + 1 < WaitForStart
             THEN i' = i + 1 /\ UNCHANGED <<vpc, remaining, wpos, windows>>
             ELSE EnterWindow("wait1", TotalWait) /\ i' = i + 1
        /\ UNCHANGED <<alive, category>>
     \/ \* line 173 is outside any try block: the process exits during the
        \* sampling interval and cpu_percent raises NoSuchProcess
        /\ proc /\ alive
        /\ alive' = FALSE
        /\ vpc' = "done"
        /\ category' = "raised"
        /\ UNCHANGED <<i, remaining, wpos, windows>>
  /\ UNCHANGED <<exe_exists, ini_exists, launched, proc, checks,
                 verify_duration, signals, warned, cleanLogged, ret, exitWin,
                 exitSlept, exitDetectable, attempted, confirmedStopped>>

\* variant: the window tests the process state even without a psutil handle
WaitCheckNoHandleGuard(w, cat) ==
  /\ vpc = w
  /\ UNCHANGED notVerify
  /\ wpos = "check"
  /\ IF ~alive
     THEN Fatal(cat) /\ confirmedStopped' = TRUE /\ UNCHANGED wpos
     ELSE wpos' = "sleep" /\ UNCHANGED <<vpc, ret, category, confirmedStopped>>
  /\ UNCHANGED <<exe_exists, ini_exists, launched, alive, proc, i, remaining,
                 windows, checks, verify_duration, signals, warned,
                 cleanLogged, exitWin, exitSlept, exitDetectable, attempted>>

\* lines 188-195 and 230-237: the liveness check at the head of a tick
WaitCheck(w, cat) ==
  /\ vpc = w
  /\ UNCHANGED notVerify
  /\ wpos = "check"
  /\ IF ExitedEarly(proc, alive)
     THEN Fatal(cat) /\ confirmedStopped' = TRUE /\ UNCHANGED wpos
     ELSE wpos' = "sleep" /\ UNCHANGED <<vpc, ret, category, confirmedStopped>>
  /\ UNCHANGED <<exe_exists, ini_exists, launched, alive, proc, i, remaining,
                 windows, checks, verify_duration, signals, warned,
                 cleanLogged, exitWin, exitSlept, exitDetectable, attempted>>

\* variant: a tick of the window sleeps without counting down
WaitSleepForever(w, next) ==
  /\ vpc = w
  /\ UNCHANGED notVerify
  /\ wpos = "sleep"
  /\ wpos' = "check"
  /\ UNCHANGED <<vpc, remaining>>
  /\ UNCHANGED <<exe_exists, ini_exists, launched, alive, proc, i, windows,
                 checks, verify_duration, signals, warned, cleanLogged, ret,
                 exitWin, exitSlept, exitDetectable, category, attempted,
                 confirmedStopped>>

\* lines 196 and 238: time.sleep(1), then the next tick or the end of the window
WaitSleep(w, next) ==
  /\ vpc = w
  /\ UNCHANGED notVerify
  /\ wpos = "sleep"
  /\ remaining' = remaining - 1
  /\ wpos' = "check"
  /\ vpc' = IF remaining = 1 THEN next ELSE w
  /\ UNCHANGED <<exe_exists, ini_exists, launched, alive, proc, i, windows,
                 checks, verify_duration, signals, warned, cleanLogged, ret,
                 exitWin, exitSlept, exitDetectable, category, attempted,
                 confirmedStopped>>

Wait1Check == WaitCheck("wait1", "exit_pass1")
Wait1Sleep == WaitSleep("wait1", "verify1")
Wait2Check == WaitCheck("wait2", "exit_pass2")
Wait2Sleep == WaitSleep("wait2", "verify2")

\* lines 205-229: the pass-1 schema check
VerifyPass1 ==
  /\ vpc = "verify1"
  /\ UNCHANGED notVerify
  /\ \E connOk \in BOOLEAN, tables \in TableSets, countOk \in BOOLEAN,
        d \in 0..MaxVerifyDuration :
       LET r == verify_robust_db(connOk, tables, countOk)
       IN /\ checks' = Append(checks, r)
          /\ verify_duration' = d
          /\ IF AfterPass1(r) = "countdown"
             THEN /\ vpc' = "countdown"
                  /\ remaining' = d
                  /\ UNCHANGED <<wpos, windows>>
             ELSE EnterWindow("wait2", TotalWait2)
  /\ UNCHANGED <<exe_exists, ini_exists, launched, alive, proc, i, signals,
                 warned, cleanLogged, ret, exitWin, exitSlept, exitDetectable,
                 category, attempted, confirmedStopped>>

\* lines 217-223: countdown of verify_duration seconds before the shutdown
Countdown ==
  /\ vpc = "countdown"
  /\ UNCHANGED notVerify
  /\ IF remaining > 0
     THEN remaining' = remaining - 1 /\ UNCHANGED vpc
     ELSE vpc' = "interrupt" /\ UNCHANGED remaining
  /\ UNCHANGED <<exe_exists, ini_exists, launched, alive, proc, i, wpos,
                 windows, checks, verify_duration, signals, warned,
                 cleanLogged, ret, exitWin, exitSlept, exitDetectable,
                 category, attempted, confirmedStopped>>

\* lines 241-247: the pass-2 schema check
VerifyPass2 ==
  /\ vpc = "verify2"
  /\ UNCHANGED notVerify
  /\ \E connOk \in BOOLEAN, tables \in TableSets, countOk \in BOOLEAN :
       LET r == verify_robust_db(connOk, tables, countOk)
       IN /\ checks' = Append(checks, r)
          /\ IF AfterPass2(r) = "fail"
             THEN Fatal(PassTwoFailure(r))
             ELSE vpc' = "interrupt" /\ UNCHANGED <<ret, category>>
  /\ UNCHANGED <<exe_exists, ini_exists, launched, alive, proc, i, remaining,
                 wpos, windows, verify_duration, signals, warned, cleanLogged,
                 exitWin, exitSlept, exitDetectable, attempted,
                 confirmedStopped>>

\* lines 267-271: an exception in the shutdown sequence is logged as a warning
ShutdownRaised ==
  /\ warned' = TRUE
  /\ Finish(ShutdownReturn(TRUE), "success")

\* lines 253-255: send CTRL_BREAK_EVENT, sleep 10 s
SendInterrupt ==
  /\ vpc = "interrupt"
  /\ UNCHANGED notVerify
  /\ attempted' = Append(attempted, "interrupt")
  /\ \/ /\ ShutdownRaised
        /\ UNCHANGED signals
     \/ /\ signals' = Append(signals, "interrupt")
        /\ vpc' = "terminate"
        /\ UNCHANGED <<warned, ret, category>>
  /\ UNCHANGED <<exe_exists, ini_exists, launched, alive, proc, i, remaining,
                 wpos, windows, checks, verify_duration, cleanLogged, exitWin,
                 exitSlept, exitDetectable, confirmedStopped>>

\* variant of Terminate that does not poll the process before terminate()
TerminateUnconditional ==
  /\ vpc = "terminate"
  /\ UNCHANGED notVerify
  /\ IF TRUE
     THEN /\ attempted' = Append(attempted, "terminate")
          /\ UNCHANGED confirmedStopped
          /\ \/ /\ ShutdownRaised
                /\ UNCHANGED signals
             \/ /\ signals' = Append(signals, "terminate")
                /\ vpc' = "kill"
                /\ UNCHANGED <<warned, ret, category>>
     ELSE /\ vpc' = "kill"
          /\ confirmedStopped' = TRUE
          /\ UNCHANGED <<signals, warned, ret, category, attempted>>
  /\ UNCHANGED <<exe_exists, ini_exists, launched, alive, proc, i, remaining,
                 wpos, windows, checks, verify_duration, cleanLogged, exitWin,
                 exitSlept, exitDetectable>>

\* lines 257-259: if still running, terminate() and sleep 5 s
Terminate ==
  /\ vpc = "terminate"
  /\ UNCHANGED notVerify
  /\ IF alive
     THEN /\ attempted' = Append(attempted, "terminate")
          /\ UNCHANGED confirmedStopped
          /\ \/ /\ ShutdownRaised
                /\ UNCHANGED signals
             \/ /\ signals' = Append(signals, "terminate")
                /\ vpc' = "kill"
                /\ UNCHANGED <<warned, ret, category>>
     ELSE /\ vpc' = "kill"
          /\ confirmedStopped' = TRUE
          /\ UNCHANGED <<signals, warned, ret, category, attempted>>
  /\ UNCHANGED <<exe_exists, ini_exists, launched, alive, proc, i, remaining,
                 wpos, windows, checks, verify_duration, cleanLogged, exitWin,
                 exitSlept, exitDetectable>>

\* lines 261-271: if still running, kill(); log the clean stop; return 0
Kill ==
  /\ vpc = "kill"
  /\ UNCHANGED notVerify
  /\ IF alive
     THEN /\ attempted' = Append(attempted, "kill")
          /\ confirmedStopped' = FALSE
          /\ \/ /\ ShutdownRaised
                /\ UNCHANGED <<signals, alive, cleanLogged>>
             \/ /\ signals' = Append(signals, "kill")
                /\ alive' = FALSE
                /\ cleanLogged' = TRUE
                /\ Finish(ShutdownReturn(FALSE), "success")
                /\ UNCHANGED warned
     ELSE /\ cleanLogged' = TRUE
          /\ confirmedStopped' = TRUE
          /\ Finish(ShutdownReturn(FALSE), "success")
          /\ UNCHANGED <<signals, alive, warned, attempted>>
  /\ UNCHANGED <<exe_exists, ini_exists, launched, proc, i, remaining, wpos,
                 windows, checks, verify_duration, exitWin, exitSlept,
                 exitDetectable>>

\* the environment: Robust.exe exits, on its own or in answer to a stop request
ProcessExits ==
  /\ launched
  /\ alive
  /\ vpc # "done"
  /\ UNCHANGED notVerify
  /\ alive' = FALSE
  /\ IF vpc \in {"wait1", "wait2"}
     THEN /\ exitWin' = IF vpc = "wait1" THEN 1 ELSE 2
          /\ exitSlept' = (IF vpc = "wait1" THEN TotalWait ELSE TotalWait2) - remaining
          /\ exitDetectable' = (wpos = "check" \/ remaining > 1)
     ELSE UNCHANGED <<exitWin, exitSlept, exitDetectable>>
  /\ UNCHANGED <<vpc, exe_exists, ini_exists, launched, proc, i, remaining,
                 wpos, windows, checks, verify_duration, signals, warned,
                 cleanLogged, ret, category, attempted, confirmedStopped>>

\* the steps launch_and_verify takes by itself
VerifyStep ==
  \/ Launch
  \/ Attach
  \/ RespondTick
  \/ Wait1Check
  \/ Wait1Sleep
  \/ VerifyPass1
  \/ Countdown
  \/ Wait2Check
  \/ Wait2Sleep
  \/ VerifyPass2
  \/ SendInterrupt
  \/ Terminate
  \/ Kill

NextVerify ==
  \/ VerifyStep
  \/ ProcessExits

(***************************************************************************)
(* verify_robust_db applied to every answer the data store can give        *)
(***************************************************************************)
\* a table of the database that verify_robust_db does not know
OtherTables == {"regionstore"}

AllTables == CORE_TABLES \cup OPTIONAL_TABLES \cup OtherTables

SchemaIdle ==
  /\ spc = "idle"
  /\ dbConn = FALSE
  /\ dbTables = {}
  /\ dbCountOk = FALSE
  /\ dbResult = Pending

SchemaStart ==
  /\ spc = "input"
  /\ dbConn \in BOOLEAN
  /\ dbTables \in SUBSET AllTables
  /\ dbCountOk \in BOOLEAN
  /\ dbResult = Pending

\* lines 55-117: one call of verify_robust_db
CheckSchema ==
  /\ spc = "input"
  /\ UNCHANGED notSchema
  /\ dbResult' = verify_robust_db(dbConn, dbTables, dbCountOk)
  /\ spc' = "checked"
  /\ UNCHANGED <<dbConn, dbTables, dbCountOk>>

NextSchema == CheckSchema

(***************************************************************************)
(* backup_install: the writer and the progress reporter (lines 236-284)    *)
(***************************************************************************)
\* line 236: len(spinner)
SpinnerLen == 4

ProgressIdle ==
  /\ wpc = "idle"
  /\ rpc = "unstarted"
  /\ lock = "free"
  /\ stop_flag = FALSE
  /\ total_files = 0
  /\ nprocessed = 0
  /\ spin_idx = 0
  /\ fidx = 0
  /\ add_errors = 0

\* lines 230-240: total_files > 0 here, the other locals are initialised
ProgressStart ==
  /\ wpc = "start"
  /\ rpc = "unstarted"
  /\ lock = "free"
  /\ stop_flag = FALSE
  /\ total_files \in 1..MaxProgressFiles
  /\ nprocessed = 0
  /\ spin_idx = 0
  /\ fidx = 0
  /\ add_errors = 0

\* lines 373-375: an exception leaves the try block; backup_install returns None
WriterRaised == wpc' = "raised"

\* lines 267-268: status_thread.start()
StartReporter ==
  /\ wpc = "start"
  /\ UNCHANGED notProgress
  /\ rpc' = "test"
  /\ wpc' = "open"
  /\ UNCHANGED <<lock, stop_flag, total_files, nprocessed, spin_idx,
                 fidx, add_errors>>

\* line 271: zipfile.ZipFile(backup_file, "w")
OpenZip ==
  /\ wpc = "open"
  /\ UNCHANGED notProgress
  /\ \/ wpc' = "add"
     \/ WriterRaised
  /\ UNCHANGED <<rpc, lock, stop_flag, total_files, nprocessed, spin_idx,
                 fidx, add_errors>>

\* variant: a file whose add failed is skipped without being counted
AddFileSkipFailed ==
  /\ wpc = "add"
  /\ UNCHANGED notProgress
  /\ \/ /\ fidx' = fidx + 1
        /\ \E failed \in BOOLEAN :
             /\ add_errors' = add_errors + (IF failed THEN 1 ELSE 0)
             /\ wpc' = IF ~failed THEN "acquire"
                       ELSE IF fidx + 1 < total_files THEN "add" ELSE "close"
     \/ /\ WriterRaised
        /\ UNCHANGED <<fidx, add_errors>>
  /\ UNCHANGED <<rpc, lock, stop_flag, total_files, nprocessed, spin_idx>>

\* lines 272-277: relpath (not guarded) and zf.write (guarded) for one file
AddFile ==
  /\ wpc = "add"
  /\ UNCHANGED notProgress
  /\ \/ \* arcname computed; zf.write stored the file, or raised and the
        \* failure was logged; either way the loop goes on to line 278
        /\ fidx' = fidx + 1
        /\ \E failed \in BOOLEAN :
             add_errors' = add_errors + (IF failed THEN 1 ELSE 0)
        /\ wpc' = "acquire"
     \/ \* os.path.relpath (line 273, outside the try) raised
        /\ WriterRaised
        /\ UNCHANGED <<fidx, add_errors>>
  /\ UNCHANGED <<rpc, lock, stop_flag, total_files, nprocessed, spin_idx>>

\* line 278: with lock (entry)
WriterAcquire ==
  /\ wpc = "acquire"
  /\ UNCHANGED notProgress
  /\ lock = "free"
  /\ lock' = "writer"
  /\ wpc' = "inc"
  /\ UNCHANGED <<rpc, stop_flag, total_files, nprocessed, spin_idx,
                 fidx, add_errors>>

\* line 279: processed += 1, then the lock is released and the loop goes on
WriterIncrement ==
  /\ wpc = "inc"
  /\ UNCHANGED notProgress
  /\ nprocessed' = nprocessed + 1
  /\ lock' = "free"
  /\ wpc' = IF fidx < total_files THEN "add" ELSE "close"
  /\ UNCHANGED <<rpc, stop_flag, total_files, spin_idx,
                 fidx, add_errors>>

\* line 271, exit of the with block: the archive is closed
CloseZip ==
  /\ wpc = "close"
  /\ UNCHANGED notProgress
  /\ \/ wpc' = "setflag"
     \/ WriterRaised
  /\ UNCHANGED <<rpc, lock, stop_flag, total_files, nprocessed, spin_idx,
                 fidx, add_errors>>

\* line 281: stop_flag = True
SetStopFlag ==
  /\ wpc = "setflag"
  /\ UNCHANGED notProgress
  /\ stop_flag' = TRUE
  /\ wpc' = "join"
  /\ UNCHANGED <<rpc, lock, total_files, nprocessed, spin_idx,
                 fidx, add_errors>>

\* variant: the writer waits for the reporter without a timeout
JoinReporterNoTimeout ==
  /\ wpc = "join"
  /\ UNCHANGED notProgress
  /\ rpc = "exited"
  /\ wpc' = "verify"
  /\ UNCHANGED <<rpc, lock, stop_flag, total_files, nprocessed, spin_idx,
                 fidx, add_errors>>

\* line 282: status_thread.join(timeout=1) returns when the reporter has
\* exited or when the timeout has run out
JoinReporter ==
  /\ wpc = "join"
  /\ UNCHANGED notProgress
  /\ wpc' = "verify"
  /\ UNCHANGED <<rpc, lock, stop_flag, total_files, nprocessed, spin_idx,
                 fidx, add_errors>>

\* line 247: while not stop_flag
ReporterTest ==
  /\ rpc = "test"
  /\ UNCHANGED notProgress
  /\ rpc' = IF stop_flag THEN "exited" ELSE "stat"
  /\ UNCHANGED <<wpc, lock, stop_flag, total_files, nprocessed, spin_idx,
                 fidx, add_errors>>

\* lines 248-256: size and rate of the archive, any error gives rate 0
ReporterStat ==
  /\ rpc = "stat"
  /\ UNCHANGED notProgress
  /\ rpc' = "acquire"
  /\ UNCHANGED <<wpc, lock, stop_flag, total_files, nprocessed, spin_idx,
                 fidx, add_errors>>

\* line 257: with lock (entry)
ReporterAcquire ==
  /\ rpc = "acquire"
  /\ UNCHANGED notProgress
  /\ lock = "free"
  /\ lock' = "reporter"
  /\ rpc' = "crit"
  /\ UNCHANGED <<wpc, stop_flag, total_files, nprocessed, spin_idx,
                 fidx, add_errors>>

\* lines 258-264: the status line is written and the lock released; an
\* exception in the write releases the lock too and ends the thread
ReporterWrite ==
  /\ rpc = "crit"
  /\ UNCHANGED notProgress
  /\ lock' = "free"
  /\ \/ /\ spin_idx' = (spin_idx + 1) % SpinnerLen
        /\ rpc' = "sleep"
     \/ /\ rpc' = "exited"
        /\ UNCHANGED spin_idx
  /\ UNCHANGED <<wpc, stop_flag, total_files, nprocessed, fidx, add_errors>>

\* line 265: time.sleep(0.2)
ReporterSleep ==
  /\ rpc = "sleep"
  /\ UNCHANGED notProgress
  /\ rpc' = "test"
  /\ UNCHANGED <<wpc, lock, stop_flag, total_files, nprocessed, spin_idx,
                 fidx, add_errors>>

WriterStep ==
  \/ StartReporter
  \/ OpenZip
  \/ AddFile
  \/ WriterIncrement
  \/ CloseZip
  \/ SetStopFlag
  \/ JoinReporter

ReporterStep ==
  \/ ReporterTest
  \/ ReporterStat
  \/ ReporterAcquire
  \/ ReporterWrite
  \/ ReporterSleep

NextProgress ==
  \/ WriterStep
  \/ WriterAcquire
  \/ ReporterStep

(***************************************************************************)
(* perform_action                                                          *)
(***************************************************************************)
Actions == {"Cleanup", "BackupCleanup", "Reset", "Upgrade"}

\* lines 266-267: the directories a cleanup removes
CleanupDirs == {"MySQL", "Apache", "OpenSim", "Downloads", "Logs"}

\* lines 282-283: the directories a reset removes
ResetDirs == {"Logs", "Downloads"}

\* what the operator may type at the confirmation prompt
Typed == {"DELETE", "delete", " Delete ", "DELET", "yes", ""}

\* line 231: confirm.strip().upper()
StripUpper(s) ==
  CASE s \in {"DELETE", "delete", " Delete "} -> "DELETE"
    [] s = "DELET" -> "DELET"
    [] s = "yes" -> "YES"
    [] OTHER -> ""

\* lines 229-232
confirm_dangerous_action(typed) == StripUpper(typed) = "DELETE"

ActionIdle ==
  /\ apc = "idle"
  /\ action = "none"
  /\ dirs = {}
  /\ dirs0 = {}
  /\ cfgExists = FALSE
  /\ cfgExists0 = FALSE
  /\ stopped = FALSE
  /\ unregistered = FALSE
  /\ backup_path = "unset"
  /\ confirm = "unset"
  /\ status = "unset"
  /\ reportSaved = FALSE

ActionStart ==
  /\ apc = "services"
  /\ action \in Actions
  /\ dirs \in SUBSET CleanupDirs
  /\ dirs0 = dirs
  /\ cfgExists \in BOOLEAN
  /\ cfgExists0 = cfgExists
  /\ stopped = FALSE
  /\ unregistered = FALSE
  /\ backup_path = "unset"
  /\ confirm = "unset"
  /\ status = "unset"
  /\ reportSaved = FALSE

\* lines 242-251: stop and unregister the services
StopServices ==
  /\ apc = "services"
  /\ UNCHANGED notAction
  /\ stopped' = (action \in {"Cleanup", "BackupCleanup", "Upgrade"})
  /\ unregistered' = (action \in {"Cleanup", "BackupCleanup"})
  /\ apc' = "backup"
  /\ UNCHANGED <<action, dirs, dirs0, cfgExists, cfgExists0, backup_path,
                 confirm, status, reportSaved>>

\* variant: the cleanup goes on whatever backup_install returned
RunBackupIgnoreResult ==
  /\ apc = "backup"
  /\ UNCHANGED notAction
  /\ IF action = "BackupCleanup"
     THEN \E r \in {"path", "None"} : backup_path' = r
     ELSE UNCHANGED backup_path
  /\ apc' = "confirm"
  /\ UNCHANGED <<action, dirs, dirs0, cfgExists, cfgExists0, stopped,
                 unregistered, confirm, status, reportSaved>>

\* lines 253-258: backup_install(root); None ends the action
RunBackup ==
  /\ apc = "backup"
  /\ UNCHANGED notAction
  /\ IF action = "BackupCleanup"
     THEN \E r \in {"path", "None"} :
            /\ backup_path' = r
            /\ IF r = "None"
               THEN status' = "backup_failed" /\ apc' = "done"
               ELSE apc' = "confirm" /\ UNCHANGED status
     ELSE /\ apc' = "confirm"
          /\ UNCHANGED <<backup_path, status>>
  /\ UNCHANGED <<action, dirs, dirs0, cfgExists, cfgExists0, stopped,
                 unregistered, confirm, reportSaved>>

\* lines 260-264: the confirmation prompt of a cleanup
Confirm ==
  /\ apc = "confirm"
  /\ UNCHANGED notAction
  /\ IF action \in {"Cleanup", "BackupCleanup"}
     THEN \/ \E typed \in Typed :
               /\ confirm' = typed
               /\ IF ~confirm_dangerous_action(typed)
                  THEN status' = "cancelled" /\ apc' = "done"
                  ELSE apc' = "remove" /\ UNCHANGED status
          \/ \* input() raises (end of input): perform_action is left
             /\ confirm' = "eof"
             /\ apc' = "raised"
             /\ UNCHANGED status
     ELSE /\ apc' = "remove"
          /\ UNCHANGED <<confirm, status>>
  /\ UNCHANGED <<action, dirs, dirs0, cfgExists, cfgExists0, stopped,
                 unregistered, backup_path, reportSaved>>

\* lines 156-165: remove_dir_safe on each of ds; a removal that fails is logged
RemoveDirs(ds) ==
  \E kept \in SUBSET (dirs \cap ds) : dirs' = (dirs \ ds) \cup kept

\* lines 266-297: the removals of the action, its status and the report file
Remove ==
  /\ apc = "remove"
  /\ UNCHANGED notAction
  /\ CASE action \in {"Cleanup", "BackupCleanup"} ->
            /\ RemoveDirs(CleanupDirs)
            /\ \E ok \in BOOLEAN : cfgExists' = (cfgExists /\ ~ok)
            /\ status' = "cleaned"
       [] action = "Reset" ->
            /\ RemoveDirs(ResetDirs)
            /\ status' = "reset"
            /\ UNCHANGED cfgExists
       [] OTHER ->
            /\ status' = "upgrade_placeholder"
            /\ UNCHANGED <<dirs, cfgExists>>
  /\ reportSaved' = TRUE
  /\ apc' = "done"
  /\ UNCHANGED <<action, dirs0, cfgExists0, stopped, unregistered,
                 backup_path, confirm>>

NextAction ==
  \/ StopServices
  \/ RunBackup
  \/ Confirm
  \/ Remove

(***************************************************************************)
(* Specifications                                                          *)
(***************************************************************************)
BackupIdle ==
  /\ bpc = "idle"
  /\ conf = DefaultConf
  /\ conf0 = DefaultConf
  /\ tree = {}
  /\ clock = 0
  /\ retry_count = 0
  /\ failed_files = {}
  /\ prev_failed = NoPath
  /\ backup_file = NoPath
  /\ MAX_RETRIES = 0
  /\ all_files = <<>>
  /\ processed = 0
  /\ entries = <<>>
  /\ addFailed = 0
  /\ archives = {}
  /\ tagged = {}
  /\ bad_file = "none"
  /\ cleanPass = FALSE
  /\ digestDone = FALSE
  /\ report = <<>>
  /\ result = "pending"
  /\ outcome = "running"
  /\ attemptPaths = <<>>
  /\ held = {}
  /\ choice = "none"

InitBackup ==
  BackupStart /\ VerifyIdle /\ SchemaIdle /\ ProgressIdle /\ ActionIdle
InitVerify ==
  VerifyStart /\ BackupIdle /\ SchemaIdle /\ ProgressIdle /\ ActionIdle
InitSchema ==
  SchemaStart /\ BackupIdle /\ VerifyIdle /\ ProgressIdle /\ ActionIdle
InitProgress ==
  ProgressStart /\ BackupIdle /\ VerifyIdle /\ SchemaIdle /\ ActionIdle
InitAction ==
  ActionStart /\ BackupIdle /\ VerifyIdle /\ SchemaIdle /\ ProgressIdle
InitWaits == InitBackup \/ InitVerify

NextWaits ==
  \/ NextBackup
  \/ NextVerify

SpecBackup == InitBackup /\ [][NextBackup]_vars
SpecVerify == InitVerify /\ [][NextVerify]_vars
SpecSchema == InitSchema /\ [][NextSchema]_vars
SpecProgress == InitProgress /\ [][NextProgress]_vars
SpecAction == InitAction /\ [][NextAction]_vars

\* either routine, run from its start
SpecWaits == InitWaits /\ [][NextWaits]_vars

\* the scheduler runs the writer whenever it can take a step, the lock is
\* free again and again while the reporter sleeps, and a thread inside the
\* critical section leaves it; nothing is assumed about the reporter's
\* other steps
SpecProgressFair ==
  /\ SpecProgress
  /\ WF_vars(WriterStep)
  /\ SF_vars(WriterAcquire)
  /\ WF_vars(ReporterWrite)

(***************************************************************************)
(* Properties of backup_install (checked under SpecBackup)                 *)
(***************************************************************************)
DeclaredPaths(c) ==
  DeclaredDirs \cup {ConfFile} \cup (IF c.php = "sep" THEN {"PHP"} ELSE {})

CorruptionAborts == {"RepeatedCorruption", "RetriesExhausted"}

\* C1: with configured backup_max_retries = K >= 1, a run in which every
\* integrity pass reports a corrupt entry makes at most K attempts and ends
\* in failure by the repeated-corruption or the retries-exhausted abort.
C1_RetryBound ==
  (bpc = "done" /\ outcome \in CorruptionAborts
     /\ ConfiguredRetries(conf0) >= 1)
  => (Len(attemptPaths) <= ConfiguredRetries(conf0) /\ result = "None")

\* C2: when the integrity pass names an entry that an earlier attempt of the
\* run already put in the ledger, the run ends in failure in that very step
\* and no further attempt starts, whatever retry budget remains.
C2_RepeatAborts ==
  [][(bpc = "verify" /\ bad_file' # "none" /\ bad_file' \in failed_files)
     => (bpc' = "done" /\ result' = "None"
         /\ attemptPaths' = attemptPaths /\ retry_count' = retry_count
         /\ failed_files' = failed_files)]_vars

C2_Witness ==
  /\ bpc = "done"
  /\ result = "None"
  /\ bad_file # "none"
  /\ Len(attemptPaths) = 2
  /\ retry_count + 1 < MAX_RETRIES

\* C3: a path is returned only for an archive that passed its own integrity
\* pass; the digest and the report record come only after that clean pass,
\* and neither exists in a run that ends in failure.
C3_DigestOnlyOnSuccess ==
  /\ result = "path" => cleanPass
  /\ (digestDone \/ report # <<>>) => cleanPass
  /\ result = "None" => (~digestDone /\ report = <<>>)

\* C4: when none of the declared backup sub-paths exists at the call, the run
\* fails with NoFilesFound and no archive file is created.
C4_EmptySourceFastFail ==
  (bpc = "done" /\ conf0.st = "missing" /\ tree \cap DeclaredDirs = {})
  => (result = "None" /\ outcome = "NoFilesFound" /\ archives = {})

C6_DistinctArchivePaths ==
  /\ \A a, b \in 1..Len(attemptPaths) :
       a # b => attemptPaths[a] # attemptPaths[b]
  /\ (bpc # "begin" /\ prev_failed # NoPath) => prev_failed # backup_file

(***************************************************************************)
(* Properties of launch_and_verify (checked under SpecVerify)              *)
(***************************************************************************)
Slept == (IF vpc = "wait2" \/ exitWin = 2 THEN TotalWait2 ELSE TotalWait) - remaining

\* C7: launch_and_verify returns 0 exactly when a schema check returned
\* Complete; after Complete nothing in the shutdown sequence makes it return
\* anything else.
C7_SuccessIffComplete ==
  /\ vpc = "done" => (ret = 0 <=> Complete \in Range(checks))
  /\ Complete \in Range(checks) => ret \in {Pending, 0}

C7_Witness ==
  /\ vpc = "done"
  /\ ret = 0
  /\ signals = <<"interrupt", "terminate", "kill">>

C9_TwoPassEscalation ==
  (Len(checks) >= 2 /\ checks[1] = Incomplete /\ checks[2] = Complete)
  => /\ Len(checks) = 2
     /\ windows = 2
     /\ vpc \in {"interrupt", "terminate", "kill", "done"}
     /\ vpc = "done" => (ret = 0 /\ (warned \/ Len(signals) >= 1))

C9_Witness ==
  /\ vpc = "done"
  /\ checks = <<Incomplete, Complete>>
  /\ windows = 2
  /\ signals = <<"interrupt", "terminate", "kill">>
  /\ ret = 0

\* C10: a ConnectionError of the pass-1 check ends the run in failure at once,
\* without a second wait window and without a second schema check.
C10_ConnectionErrorFatal ==
  (Len(checks) >= 1 /\ checks[1] = ConnectionError)
  => /\ vpc = "done"
     /\ ret \notin {Pending, 0}
     /\ windows = 1
     /\ Len(checks) = 1


\* C11: the failure codes tell the fatal categories apart: when
\* launch_and_verify ends in one fatal category, its return value is not the
\* value any other fatal category returns.
C11_DistinctExitCodes ==
  (vpc = "done" /\ category \in FatalCategories) =>
    \A c \in FatalCategories \ {category} : ExitCode(c) # ret

\* C12: a stop call is made on the process only after a schema check of the
\* run returned Complete, and a run that fails at pass 2 (Incomplete or
\* ConnectionError) ends with a failure code and without any stop call made or
\* signal delivered.
C12_StopOnlyAfterComplete ==
  /\ attempted # <<>> => Complete \in Range(checks)
  /\ signals # <<>> => Complete \in Range(checks)
  /\ (vpc = "done" /\ Len(checks) = 2 /\ checks[2] # Complete) =>
       /\ attempted = <<>>
       /\ signals = <<>>
       /\ ret = 2
       /\ category \in {"schema_incomplete", "connection_error"}

C12_Witness ==
  /\ vpc = "done"
  /\ checks = <<Incomplete, ConnectionError>>
  /\ alive
  /\ attempted = <<>>
  /\ ret = 2

\* C13: once the shutdown sequence has begun, a process that is still alive
\* when launch_and_verify returns has been asked to terminate and has been
\* force-killed, whatever became of the earlier stop calls.
C13_UnconditionalEscalation ==
  (vpc = "done" /\ "interrupt" \in Range(attempted) /\ alive) =>
    /\ "terminate" \in Range(attempted)
    /\ "kill" \in Range(attempted)

\* C14: when launch_and_verify returns after having launched the process, the
\* process was seen exited by a liveness check made after the last stop call,
\* or a message that it is left running was logged; and when force-kill was
\* needed the warning is logged, not the clean-stop message.
C14_StoppedOrWarned ==
  (vpc = "done" /\ launched) =>
    /\ \/ confirmedStopped
       \/ warned
       \/ category \in {"schema_incomplete", "connection_error"}
    /\ "kill" \in Range(signals) => (warned /\ ~cleanLogged)

\* C15: with Robust.exe or Robust.ini missing no process is ever launched and
\* the run ends with a failure code; a missing executable is reported (code 1)
\* even when the config file is missing too, a missing config file (code 2)
\* only when the executable is present.
C15_MissingFilesBeforeLaunch ==
  /\ (~exe_exists \/ ~ini_exists) =>
       /\ ~launched
       /\ vpc \in {"idle", "start", "done"}
       /\ vpc = "done" => ret \notin {0, Pending}
  /\ (vpc = "done" /\ ~exe_exists) => (ret = 1 /\ category = "exe_missing")
  /\ (vpc = "done" /\ exe_exists /\ ~ini_exists) =>
       (ret = 2 /\ category = "ini_missing")

C15_Witness ==
  /\ vpc = "done"
  /\ ~exe_exists
  /\ ~ini_exists
  /\ ret = 1
  /\ ~launched


(***************************************************************************)
(* Properties of verify_robust_db (checked under SpecSchema)               *)
(***************************************************************************)
\* C16: for every answer of the data store, verify_robust_db returns
\* ConnectionError exactly when connecting or listing fails, otherwise
\* Incomplete exactly when a core table is absent, otherwise Complete; the
\* optional tables and the outcome of the row-count queries do not matter.
C16_SchemaClassification ==
  spc = "checked" =>
    /\ (dbResult = ConnectionError) <=> ~dbConn
    /\ (dbResult = Incomplete) <=> (dbConn /\ ~(CORE_TABLES \subseteq dbTables))
    /\ (dbResult = Complete) <=> (dbConn /\ CORE_TABLES \subseteq dbTables)
    /\ \A opt \in SUBSET OPTIONAL_TABLES, cnt \in BOOLEAN :
         dbResult =
           verify_robust_db(dbConn, (dbTables \ OPTIONAL_TABLES) \cup opt, cnt)

C16_Witness ==
  /\ spc = "checked"
  /\ dbConn
  /\ ~dbCountOk
  /\ CORE_TABLES \subseteq dbTables
  /\ dbTables \cap OPTIONAL_TABLES = {}
  /\ dbResult = Complete

(***************************************************************************)
(* Properties of the writer and the reporter (checked under SpecProgress)  *)
(***************************************************************************)
\* C17: on every path by which the writer leaves the archive-writing part
\* after the reporter thread was started, the stop flag has been set.
C17_StopFlagOnEveryExit ==
  (wpc \in {"verify", "raised"} /\ rpc # "unstarted") => stop_flag

\* C18: the lock is held by the reporter only inside its critical section,
\* which it can always leave; and under fair scheduling the writer gets past
\* the join, having counted every enumerated file, unless an archive error
\* ended the attempt -- whatever the reporter does outside the critical section.
C18_WriterFinishes ==
  /\ [](lock = "reporter" => (rpc = "crit" /\ ENABLED ReporterWrite))
  /\ [](wpc = "verify" => nprocessed = total_files)
  /\ <>(wpc \in {"verify", "raised"})

C18_Witness ==
  /\ wpc = "verify"
  /\ total_files > 1
  /\ nprocessed = total_files
  /\ rpc = "crit"
  /\ lock = "reporter"
  /\ spin_idx > 0

(***************************************************************************)
(* Bounded waits (checked under SpecWaits)                                 *)
(***************************************************************************)
\* the largest retry limit a configuration can give
MaxAttempts ==
  IF MaxRetriesCfg > DefaultRetries THEN MaxRetriesCfg ELSE DefaultRetries

\* the longest file list an attempt can enumerate
MaxListLen == Len(PathsToBackup([k |-> DefaultRetries, php |-> "sep"]))

\* steps left in the current attempt of backup_install, at most
BackupPos ==
  CASE bpc = "begin" -> MaxListLen + 9
    [] bpc = "enum" -> MaxListLen + 8
    [] bpc = "open" -> MaxListLen + 7
    [] bpc = "write" -> 6 + (Len(all_files) - processed)
    [] bpc = "verify" -> 5
    [] bpc = "hash" -> 4
    [] bpc = "report" -> 3
    [] bpc = "dispose" -> 2
    [] bpc = "prompt" -> 1
    [] OTHER -> 0

\* steps left in backup_install, at most
BackupRank ==
  IF bpc \in {"idle", "done"} THEN 0
  ELSE (MaxAttempts - retry_count) * (MaxListLen + 10) + BackupPos

\* steps left in a wait window
WindowRank == 2 * remaining + (IF wpos = "check" THEN 1 ELSE 0)

\* steps left in launch_and_verify, at most
VerifyRank ==
  LET v2 == 4
      v1 == v2 + 2 * TotalWait2 + 2 + MaxVerifyDuration
      r0 == v1 + 2 * TotalWait + 2
  IN CASE vpc = "start" -> r0 + WaitForStart + 2
       [] vpc = "attach" -> r0 + WaitForStart + 1
       [] vpc = "respond" -> r0 + (WaitForStart - i)
       [] vpc = "wait1" -> v1 + WindowRank
       [] vpc = "verify1" -> v1
       [] vpc = "wait2" -> v2 + WindowRank
       [] vpc = "countdown" -> v2 + remaining
       [] vpc = "verify2" -> v2
       [] vpc = "interrupt" -> 3
       [] vpc = "terminate" -> 2
       [] vpc = "kill" -> 1
       [] OTHER -> 0

Rank == BackupRank + VerifyRank

Removed == dirs # dirs0 \/ (cfgExists0 /\ ~cfgExists)

NewCorruptEntry ==
  /\ bpc = "verify"
  /\ bpc' # "verify"
  /\ bad_file' # "none"
  /\ bad_file' \notin failed_files

\* C21 (as stated): with attempts numbered from 1, attempt a that finds a new
\* corrupt entry is followed by another attempt exactly when
\* a + 1 < MAX_RETRIES, and otherwise the run fails with retries exhausted.
C21_RetryConditionOneBased ==
  [][NewCorruptEntry =>
       /\ (bpc' = "begin") <=> (Len(attemptPaths) + 1 < MAX_RETRIES)
       /\ bpc' # "begin" => outcome' = "RetriesExhausted"]_vars

\* C21 (amended): attempt a (numbered from 1) that finds a new corrupt entry
\* is followed by another attempt exactly when a < MAX_RETRIES, the limit
\* that attempt read; otherwise the run fails with retries exhausted.
C21_RetryCondition ==
  [][NewCorruptEntry =>
       /\ Len(attemptPaths) = retry_count + 1
       /\ (bpc' = "begin") <=> (Len(attemptPaths) < MAX_RETRIES)
       /\ bpc' = "begin" => retry_count' = retry_count + 1
       /\ bpc' # "begin" => (bpc' = "done" /\ outcome' = "RetriesExhausted")]_vars

C21_Witness ==
  /\ bpc = "begin"
  /\ retry_count = 1
  /\ MAX_RETRIES = 2
  /\ Len(attemptPaths) = 1
  /\ Cardinality(failed_files) = 1


\* C26: while an attempt with retry_count = r is under way the ledger holds
\* exactly r entries; no step removes an entry from the ledger; retry_count
\* changes only by a retry, which adds 1 to it and one entry to the ledger.
C26_LedgerInvariant ==
  /\ [](bpc \in {"begin", "enum", "open", "write", "verify"} =>
          Cardinality(failed_files) = retry_count)
  /\ [][/\ failed_files \subseteq failed_files'
        /\ retry_count' # retry_count =>
             /\ retry_count' = retry_count + 1
             /\ bpc = "verify" /\ bpc' = "begin"
             /\ Cardinality(failed_files') = Cardinality(failed_files) + 1]_vars

C26_Witness ==
  /\ bpc = "begin"
  /\ retry_count = 2
  /\ Cardinality(failed_files) = 2

\* C29: an integrity pass that raises ends the run at once with a failure:
\* that step starts no attempt, whatever the budget left, and adds nothing to
\* the ledger.
C29_VerifyErrorIsFinal ==
  /\ [](outcome = "VerifyError" =>
          /\ bpc = "done"
          /\ result = "None"
          /\ Len(attemptPaths) = retry_count + 1
          /\ Cardinality(failed_files) = retry_count)
  /\ [][(bpc = "verify" /\ bad_file' = "none" /\ ~cleanPass') =>
          /\ bpc' = "done"
          /\ outcome' = "VerifyError"
          /\ UNCHANGED <<failed_files, retry_count, attemptPaths>>]_vars

C29_Witness ==
  /\ outcome = "VerifyError"
  /\ retry_count = 1
  /\ retry_count + 1 < MAX_RETRIES
  /\ Cardinality(failed_files) = 1


\* C24: the disposition prompt is issued only after a clean integrity pass
\* that follows a failed attempt whose archive is still on disk, and whatever
\* the operator answers, backup_install returns the path of the new archive
\* and that archive is still in place under its name.
C24_DispositionKeepsNewArchive ==
  /\ bpc = "prompt" =>
       (cleanPass /\ retry_count > 0 /\ prev_failed \in archives)
  /\ (bpc = "done" /\ choice \in {"D", "K", "N"}) =>
       /\ result = "path"
       /\ backup_file \in archives
       /\ backup_file \notin tagged
       /\ choice = "N" => prev_failed \in archives

\* C27: when the disposition step has deleted or renamed the previous failed
\* archive, this run holds no open read handle on that archive.
C27_NoOpenHandleAtDisposition ==
  (\/ choice = "D" /\ prev_failed \notin archives
   \/ choice = "K" /\ prev_failed \in tagged)
  => prev_failed \notin held

\* The stop calls of lines 254-262, in escalation order.
Escalation == <<"interrupt", "terminate", "kill">>

\* C22: shutdown escalation order. The stop calls made, and the ones
\* delivered, are always a prefix of interrupt, terminate, kill; a terminate
\* or kill is attempted only at its own step (after the previous signal was
\* delivered and its wait elapsed) with the process polled alive; once a poll
\* has seen the process exited, no further stop call is made.
C22_EscalationOrder ==
  /\ [](/\ Len(signals) <= Len(attempted)
        /\ Len(attempted) <= Len(Escalation)
        /\ attempted = SubSeq(Escalation, 1, Len(attempted))
        /\ signals = SubSeq(attempted, 1, Len(signals)))
  /\ [][/\ attempted' # attempted
           => /\ attempted' = Append(attempted, Escalation[Len(attempted) + 1])
              /\ signals = attempted
              /\ vpc = Escalation[Len(attempted) + 1]
              /\ Len(attempted) >= 1 => alive
        /\ confirmedStopped => (attempted' = attempted /\ signals' = signals)
        /\ (vpc \in {"terminate", "kill"} /\ ~alive /\ vpc' # vpc)
           => (confirmedStopped' /\ attempted' = attempted /\ signals' = signals)]_vars

\* C22 witness: the process exited during the 5 s wait after terminate, the
\* poll before kill saw it, and no kill was sent.
C22_Witness ==
  /\ vpc = "done"
  /\ attempted = <<"interrupt", "terminate">>
  /\ signals = attempted
  /\ confirmedStopped
  /\ ~alive


\* C25: the responsiveness check is advisory and bounded: it takes at most
\* WaitForStart ticks, and whatever the process does during it (responds,
\* idles, exits, attach failed) the run leaves it only by entering the first
\* wait window, never by ending launch_and_verify.
C25_ResponsivenessAdvisory ==
  /\ i <= WaitForStart
  /\ vpc \in {"attach", "respond"} => ret = Pending
  /\ (launched /\ vpc \notin {"attach", "respond"}) => windows >= 1


\* lines 164-168: the attach to the launched process failed (proc is None)
AttachFailed == launched /\ ~proc /\ vpc # "attach"

\* C28: when the attach failed, the early-exit results 4 and 5 are never
\* produced: a wait window is left only after its last tick was slept, towards
\* the schema check, whatever the process did meanwhile, and a finished run
\* has made at least the first schema check.
C28_NoHandleNoEarlyExit ==
  /\ [](AttachFailed
        => /\ ret \notin {4, 5}
           /\ category \notin {"exit_pass1", "exit_pass2"}
           /\ vpc = "done" => Len(checks) >= 1
           /\ vpc \in {"verify1", "wait2", "verify2"} => windows >= 1)
  /\ [][(AttachFailed /\ vpc \in {"wait1", "wait2"} /\ vpc' # vpc)
        => /\ remaining = 1 /\ wpos = "sleep" /\ remaining' = 0
           /\ vpc' = (IF vpc = "wait1" THEN "verify1" ELSE "verify2")]_vars

\* C28 witness: without a handle the process exited during the first window,
\* both windows ran to their end and both schema checks were made.
C28_Witness ==
  /\ vpc = "done"
  /\ AttachFailed
  /\ ~alive
  /\ exitWin = 1
  /\ windows = 2
  /\ Len(checks) = 2


\* C23: the shared progress counters. `processed` starts at 0, is changed
\* only by the writer, under the lock, by exactly 1 for each file the write
\* loop has taken, whether its add succeeded or failed; the reporter changes
\* neither `processed` nor `total_files`; 0 <= processed <= total_files
\* always, and processed = total_files once the write loop has completed.
C23_CounterDiscipline ==
  /\ [](/\ 0 <= nprocessed
        /\ nprocessed <= total_files
        /\ wpc \in {"start", "open"} => nprocessed = 0
        /\ nprocessed = (IF wpc \in {"acquire", "inc"} THEN fidx - 1 ELSE fidx)
        /\ add_errors <= fidx
        /\ wpc \in {"close", "setflag", "join", "verify"}
           => nprocessed = total_files)
  /\ [][/\ ReporterStep => UNCHANGED <<nprocessed, total_files>>
        /\ nprocessed' # nprocessed
           => (wpc = "inc" /\ lock = "writer" /\ nprocessed' = nprocessed + 1)
        /\ total_files' = total_files]_vars

\* C23 witness: the write loop completed over several files, one of whose
\* adds failed, while the reporter was running.
C23_Witness ==
  /\ wpc = "setflag"
  /\ total_files >= 2
  /\ nprocessed = total_files
  /\ add_errors >= 1
  /\ add_errors < total_files
  /\ rpc \notin {"unstarted", "exited"}


\* C30: when perform_action for Cleanup or BackupCleanup ends with status
\* cancelled or backup_failed, the installation is as it was before the call:
\* no service was stopped or unregistered and nothing was removed.
C30_AbortLeavesInstallUntouched ==
  (action \in {"Cleanup", "BackupCleanup"}
   /\ status \in {"cancelled", "backup_failed"})
  => (~stopped /\ ~unregistered /\ ~Removed)

====
